---- MODULE Spec2Model ----
(***************************************************************************)
(* Model of ip_hue/hue_lamp.py: the HueLamp handle, its last known lamp    *)
(* state, the command filter (_filter_command) and send_command with its   *)
(* forced retry when the bridge answers "Device is set to off.".           *)
(*                                                                         *)
(* A command (a Python dict of keyword arguments) is a function whose      *)
(* DOMAIN is the set of keys present.  The lamp state (self.state) is a    *)
(* dict as well.  One call of send_command is split at its blocking calls  *)
(* of the transport (self.light.state): pc tells where the call stands.    *)
(*                                                                         *)
(* The gamut geometry (xy_color_in_gamut, closest_point_on_line) and the   *)
(* conversions of send_bri and send_ct are checked under SpecCalc, whose   *)
(* initial states hold the arguments of one call.  Floats are modelled as  *)
(* exact rationals: a coordinate is k / MaxCoord, a float argument in      *)
(* [0, 1] is n / FloatDen.                                                 *)
(***************************************************************************)
EXTENDS Integers, Sequences, FiniteSets, TLC

\* ---------------------------------------------------------------- bounds
\* brightness values are 0 .. MaxBri
MaxBri == 1
\* chromaticities are the points <<x, MaxXY - x>>, x in 0 .. MaxXY
MaxXY == 1
\* colour temperatures are _MIN_CT .. _MIN_CT + MaxCtSpan
MaxCtSpan == 1
\* transition times are _DEFAULT_TRANSITION_TIME .. _DEFAULT_TRANSITION_TIME + MaxExtraTtime
MaxExtraTtime == 1
\* chromaticity coordinates of the gamut geometry are k / MaxCoord, k in 0 .. MaxCoord
MaxCoord == 3
\* float arguments of send_bri and send_ct are n / FloatDen, n in 0 .. FloatDen
FloatDen == 300

\* ------------------------------------------------------ program constants
_DEFAULT_TRANSITION_TIME == 4
_MIN_CT == 153
_MAX_CT == 500

\* Python's None as the value of a keyword argument (ttime=None)
None == -1

BriVals == 0 .. MaxBri
XYVals == {<<x, MaxXY - x>> : x \in 0 .. MaxXY}
CtVals == _MIN_CT .. (_MIN_CT + MaxCtSpan)
TtimeVals == _DEFAULT_TRANSITION_TIME .. (_DEFAULT_TRANSITION_TIME + MaxExtraTtime)
ColorModes == {"xy", "ct", "hs"}

\* ------------------------------------------------------------ dictionaries
\* d.pop(k, ...) / del d[k]: the dict without key k
Without(d, k) == [x \in DOMAIN d \ {k} |-> d[x]]

\* d[k] = v
With(d, k, v) == [x \in DOMAIN d \cup {k} |-> IF x = k THEN v ELSE d[x]]

\* dict.update: the keys of upd overwrite, the others stay
Update(d, upd) ==
    [x \in DOMAIN d \cup DOMAIN upd |-> IF x \in DOMAIN upd THEN upd[x] ELSE d[x]]

\* the empty dict
EmptyCmd == [x \in {} |-> 0]

\* the value None returned in place of a command dict
NoneCmd == [none |-> TRUE]

\* the state snapshots the bridge can report (info['state'], light()['state'])
Snapshots ==
    [on : BOOLEAN, bri : BriVals, xy : XYVals, ct : CtVals, colormode : ColorModes]

\* the keyword arguments a caller can hand to send_command: any of bri, xy
\* and ct, and transitiontime as send_color, send_ct and send_bri pass it: a
\* value, or None for "not given" (what pop('transitiontime', None) makes of
\* a missing key as well)
BriArgs == {EmptyCmd} \cup {[bri |-> b] : b \in BriVals}
XyArgs == {EmptyCmd} \cup {[xy |-> p] : p \in XYVals}
CtArgs == {EmptyCmd} \cup {[ct |-> c] : c \in CtVals}
TtimeArgs == {[transitiontime |-> t] : t \in TtimeVals \cup {None}}

DesiredCommands ==
    {Update(Update(Update(a, b), c), d) :
        a \in BriArgs, b \in XyArgs, c \in CtArgs, d \in TtimeArgs}

\* ---------------------------------------------------------- _filter_command
\* TurnOff that leaves the popped brightness in the command
TurnOffKeepsBri(st) ==
    IF ~st.on THEN NoneCmd ELSE [on |-> FALSE, bri |-> 0]

\* TurnOff without the test "the light is already off"
TurnOffAlways(st) ==
    [on |-> FALSE]

\* bri == 0: nothing to do when the lamp is off, otherwise just turn it off
TurnOff(st) ==
    IF ~st.on THEN NoneCmd ELSE [on |-> FALSE]

\* bri popped from the command is put back when it changes the brightness
PutBackBri(st, bri, commands) ==
    IF bri # st.bri THEN With(commands, "bri", bri) ELSE commands

\* ForceOn with the test on self.on left out
ForceOnAlways(st, commands) ==
    With(commands, "on", TRUE)

\* if the lamp is off, turn it on
ForceOn(st, commands) ==
    IF ~st.on THEN With(commands, "on", TRUE) ELSE commands

\* FilterTtime that sends the transition time with every command
FilterTtimeAlwaysSent(ttime, commands) ==
    LET popped == IF "transitiontime" \in DOMAIN commands
                  THEN commands.transitiontime ELSE None
        rest == Without(commands, "transitiontime")
        resolved == IF popped = None THEN ttime ELSE popped
    IN  With(rest, "transitiontime", resolved)

\* the transition time popped from the command, self.ttime when it is None;
\* sent only when it is not the hue default
FilterTtime(ttime, commands) ==
    LET popped == IF "transitiontime" \in DOMAIN commands
                  THEN commands.transitiontime ELSE None
        rest == Without(commands, "transitiontime")
        resolved == IF popped = None THEN ttime ELSE popped
    IN  IF resolved # _DEFAULT_TRANSITION_TIME
        THEN With(rest, "transitiontime", resolved)
        ELSE rest

\* XyOverridesCt that keeps ct
XyKeepsCt(commands) ==
    commands

\* xy overrides ct, so never send ct if xy
XyOverridesCt(commands) ==
    IF "xy" \in DOMAIN commands THEN Without(commands, "ct") ELSE commands

\* (commands['xy'] == self.xy).all(): elementwise comparison of the two pairs
XyEqual(a, b) == \A i \in 1 .. 2 : a[i] = b[i]

\* xy unchanged and the last command was xy: do not send it
DropUnchangedXy(st, commands) ==
    IF /\ "xy" \in DOMAIN commands
       /\ st.colormode = "xy"
       /\ XyEqual(commands.xy, st.xy)
    THEN Without(commands, "xy")
    ELSE commands

\* DropUnchangedCt without the test on the last colormode
DropUnchangedCtAnyMode(st, commands) ==
    IF /\ "ct" \in DOMAIN commands
       /\ commands.ct = st.ct
    THEN Without(commands, "ct")
    ELSE commands

\* ct unchanged and the last command was ct: do not send it
DropUnchangedCt(st, commands) ==
    IF /\ "ct" \in DOMAIN commands
       /\ st.colormode = "ct"
       /\ commands.ct = st.ct
    THEN Without(commands, "ct")
    ELSE commands

_filter_command(st, ttime, commands) ==
    LET hasBri == "bri" \in DOMAIN commands
        popped == Without(commands, "bri")
    IN  IF hasBri /\ commands.bri = 0
        THEN TurnOff(st)
        ELSE LET c1 == IF hasBri THEN PutBackBri(st, commands.bri, popped) ELSE popped
                 c2 == ForceOn(st, c1)
                 c3 == FilterTtime(ttime, c2)
                 c4 == XyOverridesCt(c3)
                 c5 == DropUnchangedXy(st, c4)
             IN  DropUnchangedCt(st, c5)

\* ------------------------------------------------------------ send_command
\* ForcedCommand that resends the command as it was
ForcedCommandUnchanged(commands) ==
    commands

\* the lamp was off when not expected to be: force it on in the same dict
ForcedCommand(commands) == With(commands, "on", TRUE)

\* NewColormode that keeps the colormode of the state
NewColormodeKept(st, commands) ==
    st.colormode

\* the colormode recorded with the commands just sent
NewColormode(st, commands) ==
    IF "xy" \in DOMAIN commands THEN "xy"
    ELSE IF "ct" \in DOMAIN commands THEN "ct"
    ELSE st.colormode

\* MergeSent that records the lamp as on after every command
MergeSentOn(st, commands) ==
    Update(st, With(With(commands, "colormode", NewColormode(st, commands)),
                    "on", TRUE))

\* refresh_state(dict(commands, colormode=colormode)): self.state.update(...)
MergeSent(st, commands) ==
    Update(st, With(commands, "colormode", NewColormode(st, commands)))

\* ---------------------------------------------------------- gamut geometry
\* cp(x, y) with x = p[1] / MaxCoord and y = p[2] / MaxCoord
Points == (0 .. MaxCoord) \X (0 .. MaxCoord)

\* np.dot of two pairs, in units of 1 / MaxCoord^2
Dot(a, b) == a[1] * b[1] + a[2] * b[2]

\* a - b on arrays
Minus(a, b) == <<a[1] - b[1], a[2] - b[2]>>

\* the gamut with the constants for checking if colors are in gamut; denom
\* stands for inv_denom = 1. / denom (denom in units of 1 / MaxCoord^4)
_make_gamut(red, green, blue) ==
    LET v0 == Minus(green, red)
        v1 == Minus(blue, red)
    IN  [red |-> red, green |-> green, blue |-> blue,
         v0 |-> v0, v1 |-> v1,
         dot00 |-> Dot(v0, v0), dot01 |-> Dot(v0, v1), dot11 |-> Dot(v1, v1),
         denom |-> Dot(v0, v0) * Dot(v1, v1) - Dot(v0, v1) * Dot(v0, v1)]

\* the gamuts whose corners are not collinear (inv_denom is finite)
Gamuts ==
    {g \in {_make_gamut(r, gr, b) : r \in Points, gr \in Points, b \in Points} :
        g.denom # 0}

\* xy_color_in_gamut with u + v <= 1 in place of u + v < 1
xy_color_in_gamut_inclusive(color, gamut) ==
    LET v2 == Minus(color, gamut.red)
        d02 == Dot(gamut.v0, v2)
        d12 == Dot(gamut.v1, v2)
        scale == MaxCoord * MaxCoord
        uNum == gamut.dot11 * d02 - scale * gamut.dot01 + scale * d12
        vNum == gamut.dot00 * d12 - gamut.dot01 * d02
    IN  uNum >= 0 /\ vNum >= 0 /\ uNum + vNum <= gamut.denom

\* u = (d11 * d02 - d01 + d12) * inv_denom and v = (d00 * d12 - d01 * d02) *
\* inv_denom, both times denom (which is positive); the terms d01 and d12 of
\* u are dot products, in units of 1 / MaxCoord^2, next to the product
\* d11 * d02 in units of 1 / MaxCoord^4
xy_color_in_gamut(color, gamut) ==
    LET v2 == Minus(color, gamut.red)
        d02 == Dot(gamut.v0, v2)
        d12 == Dot(gamut.v1, v2)
        scale == MaxCoord * MaxCoord
        uNum == gamut.dot11 * d02 - scale * gamut.dot01 + scale * d12
        vNum == gamut.dot00 * d12 - gamut.dot01 * d02
    IN  uNum >= 0 /\ vNum >= 0 /\ uNum + vNum < gamut.denom

\* max(min(t, 1.0), 0.0) on t = ap_ab / ab2, as the numerator over ab2
ClampT(ap_ab, ab2) ==
    IF ap_ab > ab2 THEN ab2 ELSE IF ap_ab < 0 THEN 0 ELSE ap_ab

\* (A + AB) * t for line = (A, B): the point is num / den in each coordinate
closest_point_on_line(line, P) ==
    LET A == line[1]
        B == line[2]
        AB == Minus(B, A)
        ab2 == Dot(AB, AB)
        ap_ab == Dot(Minus(P, A), AB)
        t == ClampT(ap_ab, ab2)
    IN  [num |-> <<(A[1] + AB[1]) * t, (A[2] + AB[2]) * t>>, den |-> ab2]

\* ------------------------------------------------------ send_bri, send_ct
\* int(bri_float * 256) for bri_float = n / FloatDen
BriOfFloat256(n) == (n * 256) \div FloatDen

\* int(bri_float * 255) for bri_float = n / FloatDen
BriOfFloat(n) == (n * 255) \div FloatDen

\* CtOfFloat without the inversion 1.0 - ct
CtOfFloatNotInverted(n) ==
    (n * (_MAX_CT - _MIN_CT)) \div FloatDen + _MIN_CT

\* int((1.0 - ct) * (_MAX_CT - _MIN_CT) + _MIN_CT) for ct = n / FloatDen
CtOfFloat(n) ==
    ((FloatDen - n) * (_MAX_CT - _MIN_CT)) \div FloatDen + _MIN_CT

VARIABLES
    state,      \* self.state: the last known state of the lamp
    ttime,      \* self.ttime: the configured transition time
    pc,         \* "idle", or where send_command waits for the transport
    desired,    \* the keyword arguments of the current / last send_command
    pre,        \* self.state when that send_command was called
    filtered,   \* what _filter_command returned to it
    sent,       \* the dicts it handed to self.light.state, in order: its local
                \* commands is the last of them
    replies,    \* the transport's answers to them, in order
    outcome,    \* "none", "running", "noop", "returned" or "raised"
    repeat,     \* the call repeats the desired command of an accepted call
    calc        \* under SpecCalc: the arguments and the result of one call of
                \* a gamut function or of send_bri / send_ct

lampVars == <<state, ttime, pc, desired, pre, filtered, sent, replies,
              outcome, repeat>>

vars == <<lampVars, calc>>

\* no call under SpecCalc
NoCalc == [op |-> "none"]

\* what the transport can answer: success, QhueException "Device is set to
\* off.", another QhueException, or an exception of another class
ErrorReplies == {"off", "qhue", "exc"}

\* __init__: ttime is the default, the state is the snapshot of the bridge
Init ==
    /\ state \in Snapshots
    /\ ttime = _DEFAULT_TRANSITION_TIME
    /\ pc = "idle"
    /\ desired = EmptyCmd
    /\ pre = state
    /\ filtered = NoneCmd
    /\ sent = <<>>
    /\ replies = <<>>
    /\ outcome = "none"
    /\ repeat = FALSE
    /\ calc = NoCalc

\* no call of send_command is remembered
Forget ==
    /\ desired' = EmptyCmd
    /\ filtered' = NoneCmd
    /\ sent' = <<>>
    /\ replies' = <<>>
    /\ outcome' = "none"
    /\ repeat' = FALSE

\* the caller assigns the attribute ttime of the handle
SetTtime ==
    /\ pc = "idle"
    /\ outcome = "none"
    /\ \E t \in TtimeVals : t # ttime /\ ttime' = t
    /\ pre' = state
    /\ Forget
    /\ UNCHANGED <<calc, state, pc>>

\* refresh_state(): the state is replaced by what the bridge reports
RefreshState ==
    /\ pc = "idle"
    /\ outcome = "none"
    /\ \E s \in Snapshots : state' = s /\ pre' = s
    /\ Forget
    /\ UNCHANGED <<calc, ttime, pc>>

\* the transport accepted the last command of the call
Accepted == outcome = "returned" /\ replies # <<>> /\ replies[Len(replies)] = "ok"

\* send_command(**d) up to its first call of the transport, or to its return
\* when the filter returns None
Call(d) ==
    LET f == _filter_command(state, ttime, d)
    IN  /\ desired' = d
        /\ filtered' = f
        /\ IF f = NoneCmd
           THEN /\ sent' = <<>>
                /\ outcome' = "noop"
                /\ pc' = "idle"
           ELSE /\ sent' = <<f>>
                /\ outcome' = "running"
                /\ pc' = "send"
        /\ pre' = state
        /\ replies' = <<>>
        /\ UNCHANGED <<state, ttime>>

\* a call of send_command with any keyword arguments
SendCommand ==
    /\ pc = "idle"
    /\ outcome = "none"
    /\ repeat' = FALSE
    /\ \E d \in DesiredCommands : Call(d)
    /\ UNCHANGED calc

\* the call that just ended was accepted by the transport, and the next call
\* has the same keyword arguments
SendAgain ==
    /\ pc = "idle"
    /\ Accepted
    /\ repeat' = TRUE
    /\ Call(desired)
    /\ UNCHANGED calc

\* the call that ended is forgotten: the next call is any call
ForgetCall ==
    /\ pc = "idle"
    /\ outcome # "none"
    /\ pre' = state
    /\ Forget
    /\ UNCHANGED <<calc, state, ttime, pc>>

\* FirstSendOk that takes the transition time just sent as the configured one
FirstSendOkStoresTtime ==
    /\ pc = "send"
    /\ replies' = Append(replies, "ok")
    /\ state' = MergeSent(state, sent[Len(sent)])
    /\ ttime' = IF "transitiontime" \in DOMAIN sent[Len(sent)]
                THEN sent[Len(sent)].transitiontime ELSE ttime
    /\ outcome' = "returned"
    /\ pc' = "idle"
    /\ UNCHANGED <<calc, desired, pre, filtered, sent, repeat>>

\* self.light.state(**commands) returns: the state is updated from commands
FirstSendOk ==
    /\ pc = "send"
    /\ replies' = Append(replies, "ok")
    /\ state' = MergeSent(state, sent[Len(sent)])
    /\ outcome' = "returned"
    /\ pc' = "idle"
    /\ UNCHANGED <<calc, ttime, desired, pre, filtered, sent, repeat>>

\* QhueException with 'Device is set to off.': on is forced and the command
\* is sent again from the handler
FirstSendOff ==
    /\ pc = "send"
    /\ replies' = Append(replies, "off")
    /\ sent' = Append(sent, ForcedCommand(sent[1]))
    /\ pc' = "retry"
    /\ UNCHANGED <<calc, state, ttime, desired, pre, filtered, outcome, repeat>>

\* any other QhueException: the handler does nothing and the call goes on
\* to update the state
FirstSendQhueError ==
    /\ pc = "send"
    /\ replies' = Append(replies, "qhue")
    /\ state' = MergeSent(state, sent[Len(sent)])
    /\ outcome' = "returned"
    /\ pc' = "idle"
    /\ UNCHANGED <<calc, ttime, desired, pre, filtered, sent, repeat>>

\* an exception that is no QhueException leaves send_command
FirstSendOtherError ==
    /\ pc = "send"
    /\ replies' = Append(replies, "exc")
    /\ outcome' = "raised"
    /\ pc' = "idle"
    /\ UNCHANGED <<calc, state, ttime, desired, pre, filtered, sent, repeat>>

\* the forced command is accepted
RetryOk ==
    /\ pc = "retry"
    /\ replies' = Append(replies, "ok")
    /\ state' = MergeSent(state, sent[Len(sent)])
    /\ outcome' = "returned"
    /\ pc' = "idle"
    /\ UNCHANGED <<calc, ttime, desired, pre, filtered, sent, repeat>>

\* RetryError with the exception of the second send swallowed: the call goes
\* on to update the state
RetryErrorSwallowed ==
    /\ pc = "retry"
    /\ \E e \in ErrorReplies : replies' = Append(replies, e)
    /\ state' = MergeSent(state, sent[Len(sent)])
    /\ outcome' = "returned"
    /\ pc' = "idle"
    /\ UNCHANGED <<calc, ttime, desired, pre, filtered, sent, repeat>>

\* an exception raised inside the handler leaves send_command, whatever it is
RetryError ==
    /\ pc = "retry"
    /\ \E e \in ErrorReplies : replies' = Append(replies, e)
    /\ outcome' = "raised"
    /\ pc' = "idle"
    /\ UNCHANGED <<calc, state, ttime, desired, pre, filtered, sent, repeat>>

Next ==
    \/ SetTtime
    \/ RefreshState
    \/ SendCommand
    \/ SendAgain
    \/ ForgetCall
    \/ FirstSendOk
    \/ FirstSendOff
    \/ FirstSendQhueError
    \/ FirstSendOtherError
    \/ RetryOk
    \/ RetryError

Spec == Init /\ [][Next]_vars

\* ----------------------------------------------------------------- SpecCalc
\* the calls of xy_color_in_gamut(color, gamut)
GamutQueries ==
    {[op |-> "xy_color_in_gamut", gamut |-> g, color |-> p,
      done |-> FALSE, result |-> FALSE] : g \in Gamuts, p \in Points}

\* the calls of closest_point_on_line((A, B), P) with A # B
LineQueries ==
    {[op |-> "closest_point_on_line", line |-> <<a, b>>, P |-> p,
      done |-> FALSE, result |-> [num |-> <<0, 0>>, den |-> 1]] :
        a \in Points, b \in Points, p \in Points} \ 
    {[op |-> "closest_point_on_line", line |-> <<a, a>>, P |-> p,
      done |-> FALSE, result |-> [num |-> <<0, 0>>, den |-> 1]] :
        a \in Points, p \in Points}

\* the calls of send_bri(n / FloatDen, ttime) and send_ct(n / FloatDen, ttime)
SenderCalls(op) ==
    {[op |-> op, arg |-> n, ttime |-> t, done |-> FALSE] :
        n \in 0 .. FloatDen, t \in TtimeVals \cup {None}}

\* the lamp the gamut functions are called beside
DefaultSnapshot ==
    [on |-> FALSE, bri |-> 0, xy |-> <<0, MaxXY>>, ct |-> _MIN_CT, colormode |-> "ct"]

InitCalc ==
    /\ \/ calc \in GamutQueries /\ state = DefaultSnapshot
       \/ calc \in LineQueries /\ state = DefaultSnapshot
       \/ calc \in SenderCalls("send_bri") /\ state \in Snapshots
       \/ calc \in SenderCalls("send_ct") /\ state \in Snapshots
    /\ ttime = _DEFAULT_TRANSITION_TIME
    /\ pc = "idle"
    /\ desired = EmptyCmd
    /\ pre = state
    /\ filtered = NoneCmd
    /\ sent = <<>>
    /\ replies = <<>>
    /\ outcome = "none"
    /\ repeat = FALSE

InGamut ==
    /\ calc.op = "xy_color_in_gamut"
    /\ ~calc.done
    /\ calc' = [calc EXCEPT !.done = TRUE,
                            !.result = xy_color_in_gamut(calc.color, calc.gamut)]
    /\ UNCHANGED lampVars

ClosestPoint ==
    /\ calc.op = "closest_point_on_line"
    /\ ~calc.done
    /\ calc' = [calc EXCEPT !.done = TRUE,
                            !.result = closest_point_on_line(calc.line, calc.P)]
    /\ UNCHANGED lampVars

\* send_bri(bri_float, ttime): send_command(bri=bri, transitiontime=ttime)
SendBri ==
    /\ calc.op = "send_bri"
    /\ ~calc.done
    /\ calc' = [calc EXCEPT !.done = TRUE]
    /\ repeat' = FALSE
    /\ Call([bri |-> BriOfFloat(calc.arg), transitiontime |-> calc.ttime])

\* send_ct(ct, ttime): send_command(ct=ct, transitiontime=ttime)
SendCt ==
    /\ calc.op = "send_ct"
    /\ ~calc.done
    /\ calc' = [calc EXCEPT !.done = TRUE]
    /\ repeat' = FALSE
    /\ Call([ct |-> CtOfFloat(calc.arg), transitiontime |-> calc.ttime])

NextCalc ==
    \/ InGamut
    \/ ClosestPoint
    \/ SendBri
    \/ SendCt

SpecCalc == InitCalc /\ [][NextCalc]_vars

TypeOK ==
    /\ pc \in {"idle", "send", "retry"}
    /\ ttime \in TtimeVals
    /\ outcome \in {"none", "running", "noop", "returned", "raised"}
    /\ Len(sent) <= 2

\* ------------------------------------------------------------------ claims
\* a call of send_command is under way or has just ended
InCall == outcome # "none"

\* the desired command asks for brightness 0
BriZero == "bri" \in DOMAIN desired /\ desired.bri = 0

\* the keys of a command that change the lamp
EffectiveKeys == {"on", "bri", "xy", "ct"}

AllDesiredKeys == {"bri", "xy", "ct", "transitiontime"}

C2_OffBriZeroNoOp ==
    (InCall /\ ~pre.on /\ BriZero) =>
        /\ filtered = NoneCmd
        /\ sent = <<>>
        /\ replies = <<>>
        /\ state = pre
        /\ outcome = "noop"
        /\ pc = "idle"

C2_Witness ==
    /\ InCall /\ ~pre.on /\ BriZero
    /\ DOMAIN desired = AllDesiredKeys
    /\ outcome = "noop"

\* C3: when the first send is rejected with "Device is set to off.", the
\* command is sent exactly once more, as the filtered command with on: True
\* forced in; the state is untouched while the second send is under way, and
\* when the second send succeeds the state is merged from the command sent
\* again, so that state.on is True.
C3_ForcedRetry ==
    (replies # <<>> /\ replies[1] = "off") =>
        /\ Len(sent) = 2
        /\ Len(replies) <= 2
        /\ sent[1] = filtered
        /\ DOMAIN sent[2] = DOMAIN filtered \cup {"on"}
        /\ sent[2].on = TRUE
        /\ \A k \in DOMAIN filtered \ {"on"} : sent[2][k] = filtered[k]
        /\ (pc = "retry" => state = pre /\ Len(replies) = 1)
        /\ (Len(replies) = 2 /\ replies[2] = "ok" =>
              /\ outcome = "returned"
              /\ pc = "idle"
              /\ state.on = TRUE
              /\ \A k \in DOMAIN sent[2] : state[k] = sent[2][k])

C3_Witness ==
    /\ replies = <<"off", "ok">>
    /\ pre.on
    /\ "on" \notin DOMAIN sent[1]
    /\ "xy" \in DOMAIN sent[2] /\ sent[2].xy # pre.xy
    /\ state.xy = sent[2].xy
    /\ state.on

\* C4: when the first send is rejected with "Device is set to off." and the
\* forced second send fails too, with any error, the error leaves
\* send_command, there is no third send and the state is the state from
\* before the call.
C4_RetryFails ==
    (Len(replies) = 2 /\ replies[1] = "off" /\ replies[2] # "ok") =>
        /\ outcome = "raised"
        /\ pc = "idle"
        /\ Len(sent) = 2
        /\ state = pre

C4_Witness ==
    /\ replies = <<"off", "qhue">>
    /\ outcome = "raised"
    /\ "bri" \in DOMAIN sent[2] /\ sent[2].bri # state.bri

\* C5: when the first send fails with any error other than "Device is set to
\* off.", the error leaves send_command, nothing is sent again and the state
\* is not modified.
C5_OtherErrorPropagates ==
    (replies # <<>> /\ replies[1] \in {"qhue", "exc"}) =>
        /\ outcome = "raised"
        /\ Len(sent) = 1
        /\ state = pre

\* C6: when a desired command was issued and accepted by the transport and
\* the same desired command is issued again against the resulting state, the
\* second call is a NoOp: it does not call the transport.
C6_RepeatIsNoOp ==
    repeat => (sent = <<>> /\ outcome = "noop")

\* C7: the transport is never called with a command that has none of the
\* keys on, bri, xy, ct (an empty command or one with transitiontime only).
C7_NeverSendsEmpty ==
    \A i \in DOMAIN sent : DOMAIN sent[i] \cap EffectiveKeys # {}

\* C8 as stated: with the lamp known to be off and bri absent or non-zero
\* the filtered command has on: True, and with the lamp known to be on the
\* filtered command never has a key on.
C8_Original ==
    InCall =>
        /\ (~pre.on /\ ~BriZero) =>
              ("on" \in DOMAIN filtered /\ filtered.on = TRUE)
        /\ pre.on => "on" \notin DOMAIN filtered

\* C8: with the lamp known to be off and bri absent or non-zero the filtered
\* command has on: True; with the lamp known to be on and bri absent or
\* non-zero the filtered command has no key on.  From a state with on False
\* and colormode ct, a command with xy and a non-zero bri is filtered to a
\* command with on: True and xy and without ct.
C8_ForceOn ==
    (InCall /\ ~BriZero) =>
        /\ ~pre.on => ("on" \in DOMAIN filtered /\ filtered.on = TRUE)
        /\ pre.on => "on" \notin DOMAIN filtered
        /\ (~pre.on /\ pre.colormode = "ct" /\ "xy" \in DOMAIN desired) =>
              /\ "xy" \in DOMAIN filtered
              /\ filtered.xy = desired.xy
              /\ "ct" \notin DOMAIN filtered

C8_Witness ==
    /\ InCall
    /\ ~pre.on /\ pre.colormode = "ct"
    /\ DOMAIN desired = {"bri", "xy", "transitiontime"}
    /\ desired.bri # 0
    /\ desired.transitiontime = None
    /\ DOMAIN sent[1] = {"on", "xy"} \cup (DOMAIN sent[1] \cap {"bri"})
    /\ sent[1].on = TRUE

\* C9: no command handed to the transport, first send or second, has both xy
\* and ct: when the desired command has xy, ct is dropped, also when xy is
\* then suppressed as unchanged.
C9_NoXyWithCt ==
    /\ \A i \in DOMAIN sent : ~({"xy", "ct"} \subseteq DOMAIN sent[i])
    /\ (InCall /\ "xy" \in DOMAIN desired) => "ct" \notin DOMAIN filtered

C9_Witness ==
    /\ InCall
    /\ {"xy", "ct"} \subseteq DOMAIN desired
    /\ ~BriZero
    /\ Len(sent) = 2
    /\ "xy" \notin DOMAIN sent[1]
    /\ desired.ct # pre.ct

LastSent == sent[Len(sent)]

\* C11: after a command the transport accepted (first send or second),
\* state.colormode is xy when the command sent had xy, otherwise ct when it
\* had ct, otherwise what it was before the call.
C11_ColormodeTracksSent ==
    Accepted =>
        state.colormode =
            IF "xy" \in DOMAIN LastSent THEN "xy"
            ELSE IF "ct" \in DOMAIN LastSent THEN "ct"
            ELSE pre.colormode

C11_Witness ==
    /\ Accepted
    /\ Len(sent) = 2
    /\ "ct" \in DOMAIN LastSent
    /\ pre.colormode = "xy"
    /\ state.colormode = "ct"

\* C12: the merge after an accepted command overwrites the fields whose key
\* is in the command sent, and colormode; on, bri, xy and ct keep their value
\* when their key is absent from it (after an accepted {on: False} the
\* stored bri, xy and ct are unchanged).
C12_MergeFrame ==
    Accepted =>
        /\ \A k \in EffectiveKeys :
              state[k] = IF k \in DOMAIN LastSent THEN LastSent[k] ELSE pre[k]
        /\ DOMAIN state = DOMAIN pre \cup DOMAIN LastSent
        /\ "transitiontime" \in DOMAIN state =>
              state.transitiontime =
                  IF "transitiontime" \in DOMAIN LastSent
                  THEN LastSent.transitiontime ELSE pre.transitiontime

C12_Witness ==
    /\ Accepted
    /\ LastSent = [on |-> FALSE]
    /\ pre.on /\ ~state.on
    /\ state.bri = pre.bri /\ state.xy = pre.xy /\ state.ct = pre.ct
    /\ pre.bri # 0

\* the colour key k of the desired command is unchanged and the last
\* colormode of the lamp is k
Unchanged(k) == desired[k] = pre[k] /\ pre.colormode = k

\* C17 as stated: xy is dropped from the filtered command iff it equals the
\* stored xy and the stored colormode is xy, and ct (no xy requested) iff it
\* equals the stored ct and the stored colormode is ct.
C17_Original ==
    InCall =>
        /\ "xy" \in DOMAIN desired =>
              ("xy" \notin DOMAIN filtered <=> Unchanged("xy"))
        /\ ("ct" \in DOMAIN desired /\ "xy" \notin DOMAIN desired) =>
              ("ct" \notin DOMAIN filtered <=> Unchanged("ct"))

\* C17: for a desired command that is not resolved by bri == 0, xy is dropped
\* from the filtered command iff it equals the stored xy and the stored
\* colormode is xy, and ct (no xy requested) iff it equals the stored ct and
\* the stored colormode is ct.  So with colormode xy (an xy command was the
\* last colour command accepted), a command with ct alone sends ct even
\* when the stored ct has that value.
C17_SuppressOnlyInMode ==
    (InCall /\ ~BriZero) =>
        /\ "xy" \in DOMAIN desired =>
              /\ "xy" \notin DOMAIN filtered <=> Unchanged("xy")
              /\ "xy" \in DOMAIN filtered => filtered.xy = desired.xy
        /\ ("ct" \in DOMAIN desired /\ "xy" \notin DOMAIN desired) =>
              /\ "ct" \notin DOMAIN filtered <=> Unchanged("ct")
              /\ "ct" \in DOMAIN filtered => filtered.ct = desired.ct

C17_Witness ==
    /\ InCall
    /\ DOMAIN desired = {"ct", "transitiontime"}
    /\ pre.colormode = "xy"
    /\ pre.ct = desired.ct
    /\ pre.on
    /\ sent # <<>>
    /\ "ct" \in DOMAIN sent[1] /\ sent[1].ct = pre.ct

\* C19: a call whose desired command has bri == 0 never hands a command with
\* on: True to the transport, whatever the transport answers, and after it
\* state.on is True only when it was True before and nothing was accepted.
C19_BriZeroNeverTurnsOn ==
    (InCall /\ BriZero) =>
        /\ \A i \in DOMAIN sent :
              ~("on" \in DOMAIN sent[i] /\ sent[i].on = TRUE)
        /\ state.on => (pre.on /\ ~Accepted)

\* C20: no step of a call of send_command changes the configured ttime, and
\* a command without a transition time of its own resolves it to the
\* configured ttime, also when the state holds the transition time merged
\* from an earlier command.
C20_TtimeKept ==
    [][/\ (InCall \/ InCall') => ttime' = ttime
       /\ (InCall' /\ ~BriZero' /\ desired'.transitiontime = None) =>
             /\ "transitiontime" \in DOMAIN filtered' <=> ttime # 4
             /\ "transitiontime" \in DOMAIN filtered' =>
                   filtered'.transitiontime = ttime]_vars

C20_Witness ==
    /\ InCall /\ ~BriZero
    /\ desired.transitiontime = None
    /\ "transitiontime" \in DOMAIN pre
    /\ pre.transitiontime # ttime
    /\ ttime = 4
    /\ sent # <<>>
    /\ "transitiontime" \notin DOMAIN sent[1]

\* ------------------------------------------------- claims under SpecCalc
\* the call of op has returned
Done(op) == calc.op = op /\ calc.done

\* the barycentric test u >= 0, v >= 0, u + v < 1 with
\* u = (d11 * d02 - d01 * d12) * invDenom, v = (d00 * d12 - d01 * d02) * invDenom
BarycentricInside(color, gamut) ==
    LET v2 == Minus(color, gamut.red)
        d02 == Dot(gamut.v0, v2)
        d12 == Dot(gamut.v1, v2)
        uNum == gamut.dot11 * d02 - gamut.dot01 * d12
        vNum == gamut.dot00 * d12 - gamut.dot01 * d02
    IN  uNum >= 0 /\ vNum >= 0 /\ uNum + vNum < gamut.denom

\* C13: for every non-degenerate gamut and every query point, the result of
\* the in-gamut test equals the barycentric reference test with
\* u = (d11*d02 - d01*d12)*invDenom.  The code computes d01 + d12 in u, so
\* this does not hold.
C13_ContainsIsReference ==
    Done("xy_color_in_gamut") =>
        calc.result = BarycentricInside(calc.color, calc.gamut)

Round(num, den) == (2 * num + den) \div (2 * den)

\* C15 as stated: send_bri(b) requests bri = round(b * 255), so b * 255 >= 0.5
\* gives bri >= 1 and is not treated as a turn-off request.
C15_Original ==
    Done("send_bri") =>
        /\ desired.bri = Round(255 * calc.arg, FloatDen)
        /\ 2 * 255 * calc.arg >= FloatDen =>
              desired.bri >= 1 /\ filtered # [on |-> FALSE]

\* C15: send_bri(b) requests bri = b * 255 truncated to an integer, which
\* lies in 0 .. 255; b * 255 < 1 gives bri = 0 and is handled as a request to
\* turn the lamp off, b * 255 >= 1 gives bri >= 1 and is not.
C15_Truncates ==
    Done("send_bri") =>
        /\ desired.bri * FloatDen <= 255 * calc.arg
        /\ 255 * calc.arg < (desired.bri + 1) * FloatDen
        /\ desired.bri \in 0 .. 255
        /\ desired.transitiontime = calc.ttime
        /\ 255 * calc.arg < FloatDen =>
              filtered = IF pre.on THEN [on |-> FALSE] ELSE NoneCmd
        /\ 255 * calc.arg >= FloatDen =>
              desired.bri >= 1 /\ filtered # [on |-> FALSE]

C15_Witness ==
    /\ Done("send_bri")
    /\ 2 * 255 * calc.arg >= FloatDen
    /\ desired.bri = 0
    /\ pre.on
    /\ filtered = [on |-> FALSE]

\* C16 as stated: send_ct(t) requests ct = round((1 - t) * (500 - 153) + 153).
C16_Original ==
    Done("send_ct") =>
        desired.ct =
            Round((FloatDen - calc.arg) * (_MAX_CT - _MIN_CT), FloatDen) + _MIN_CT

\* C16: send_ct(t) requests ct = (1 - t) * (500 - 153) + 153 truncated to an
\* integer; it lies in 153 .. 500, t = 0 gives 500, t = 1 gives 153, and no
\* smaller t gives a smaller ct.
C16_Truncates ==
    Done("send_ct") =>
        LET span == (FloatDen - calc.arg) * (_MAX_CT - _MIN_CT)
        IN  /\ (desired.ct - _MIN_CT) * FloatDen <= span
            /\ span < (desired.ct - _MIN_CT + 1) * FloatDen
            /\ desired.ct \in 153 .. 500
            /\ desired.transitiontime = calc.ttime
            /\ calc.arg = 0 => desired.ct = 500
            /\ calc.arg = FloatDen => desired.ct = 153
            /\ \A m \in 0 .. calc.arg : CtOfFloat(m) >= desired.ct

C16_Witness ==
    /\ Done("send_ct")
    /\ calc.arg \in 1 .. FloatDen - 1
    /\ desired.ct #
          Round((FloatDen - calc.arg) * (_MAX_CT - _MIN_CT), FloatDen) + _MIN_CT
    /\ "ct" \in DOMAIN filtered
    /\ filtered.ct = desired.ct

\* C18: for A # B the closest point is A + AB * t with
\* t = dot(P - A, AB) / dot(AB, AB) clamped to [0, 1] (here times dot(AB, AB)).
\* The code returns (A + AB) * t, so this does not hold.
C18_ClosestIsAPlusABt ==
    Done("closest_point_on_line") =>
        LET A == calc.line[1]
            AB == Minus(calc.line[2], A)
            ab2 == Dot(AB, AB)
            t == ClampT(Dot(Minus(calc.P, A), AB), ab2)
        IN  /\ calc.result.den = ab2
            /\ calc.result.num = <<A[1] * ab2 + AB[1] * t, A[2] * ab2 + AB[2] * t>>
====
